---- MODULE Spec2Model ----
(***************************************************************************)
(* Photo gallery (Project2): Part A (Flask + DynamoDB + S3), Part B (Flask *)
(* + MongoDB + S3) and Part C (DynamoDB -> MongoDB migration).             *)
(*                                                                         *)
(* Text is modelled as sequences of one-character strings, a DynamoDB      *)
(* table as a set of items with one item per primary key, a MongoDB        *)
(* collection as a sequence of documents in insertion order, each with a   *)
(* storage-assigned _id, and the S3 bucket as the set of keys it holds.    *)
(* A request handler is a small process: one step per store call.          *)
(***************************************************************************)
EXTENDS Integers, Sequences, FiniteSets, TLC

VARIABLES
    users_tbl,    \* Part A: DynamoDB table PhotoGalleryUsers (set of items)
    photos_tbl,   \* Part A: DynamoDB table PhotoGalleryPhotos (set of items)
    users_col,    \* Part B: MongoDB collection users (sequence of documents)
    photos_col,   \* Part B: MongoDB collection photos (sequence of documents)
    s3,           \* the shared S3 bucket: the set of object keys it holds
    next_oid,     \* MongoDB: next ObjectId to assign
    next_uuid,    \* uuid.uuid4(): number of ids drawn so far
    now,          \* datetime.utcnow()
    session,      \* per client: the Flask session's "username", or NoUser
    pc,           \* per client: position of its request handler
    req,          \* per client: the handler's locals
    io,           \* per client: the store calls its running handler has made
    last,         \* the response on its way to a client (NoLast if there is none)
    created,      \* history: the photo ids written, each with its upload's session identity
                  \* and its place in the order of the record writes
    mig,          \* Part C: the migration process (position, locals, output)
    deployed      \* which of the applications (Part A, Part B) are running

vars == <<users_tbl, photos_tbl, users_col, photos_col, s3, next_oid, next_uuid,
          now, session, pc, req, io, last, created, mig, deployed>>

stores == <<users_tbl, photos_tbl, users_col, photos_col, s3>>

-----------------------------------------------------------------------------
(* Bounds *)

\* datetime.utcnow() takes values 0..MaxRegClock while registering
MaxRegClock == 1

-----------------------------------------------------------------------------
(* Text *)

\* "username" not in session: no text, since a text holds single characters only
NoUser == <<"no user">>
\* Python's None where a record is expected
None == [none |-> TRUE]

Whitespace == {" "}

\* the upper-case letters of the model's alphabet and their lower-case forms
UpperCase == <<"A", "B", "G", "N", "P">>
LowerCase == <<"a", "b", "g", "n", "p">>

\* str.lower() on one character
LowerChar(c) ==
    IF \E i \in 1..Len(UpperCase) : UpperCase[i] = c
    THEN LowerCase[CHOOSE i \in 1..Len(UpperCase) : UpperCase[i] = c]
    ELSE c

lower(s) == [i \in 1..Len(s) |-> LowerChar(s[i])]

RECURSIVE lstrip(_)
lstrip(s) == IF s # <<>> /\ Head(s) \in Whitespace THEN lstrip(Tail(s)) ELSE s

RECURSIVE rstrip(_)
rstrip(s) ==
    IF s # <<>> /\ s[Len(s)] \in Whitespace THEN rstrip(SubSeq(s, 1, Len(s) - 1)) ELSE s

\* a strip() that removes nothing
strip_nothing(s) == s

\* str.strip()
strip(s) == rstrip(lstrip(s))

\* Python's `sub in s` on strings
Contains(s, sub) ==
    \E i \in 0..(Len(s) - Len(sub)) : SubSeq(s, i + 1, i + Len(sub)) = sub

\* hashlib.sha256(password.encode()).hexdigest(): a deterministic, injective
\* digest of the plaintext, never the plaintext itself
_pw(password) == <<"sha256", password>>

-----------------------------------------------------------------------------
(* DynamoDB (Part A) *)

\* table.get_item(Key={attr: k}): the response holds "Item" iff the key exists
HasItem(tbl, attr, k) == \E it \in tbl : it[attr] = k

GetItem(tbl, attr, k) ==
    IF HasItem(tbl, attr, k) THEN CHOOSE it \in tbl : it[attr] = k ELSE None

\* a put_item that keeps an existing item: what a conditional put would do
PutItemIfAbsent(tbl, attr, item) ==
    IF HasItem(tbl, attr, item[attr]) THEN tbl ELSE tbl \cup {item}

\* table.put_item(Item=item): creates the item or replaces the one with its key
PutItem(tbl, attr, item) == {it \in tbl : it[attr] # item[attr]} \cup {item}

\* the orders in which DynamoDB may walk a table: any, but the same for every
\* page of one scan
ScanOrders(tbl) ==
    {o \in [1..Cardinality(tbl) -> tbl] :
        \A i, j \in 1..Cardinality(tbl) : o[i] = o[j] => i = j}

\* a delete_item that removes nothing
DeleteItemKeeps(tbl, attr, k) == tbl

\* table.delete_item(Key={attr: k}): no error when the key is absent
DeleteItem(tbl, attr, k) == {it \in tbl : it[attr] # k}

-----------------------------------------------------------------------------
(* MongoDB (Part B) *)

\* index of the first document of col whose field attr equals k, 0 if none
FirstIndex(col, attr, k) ==
    IF \E i \in 1..Len(col) : col[i][attr] = k
    THEN CHOOSE i \in 1..Len(col) :
             /\ col[i][attr] = k
             /\ \A j \in 1..(i - 1) : col[j][attr] # k
    ELSE 0

\* col.find_one({attr: k})
FindOne(col, attr, k) ==
    IF FirstIndex(col, attr, k) = 0 THEN None ELSE col[FirstIndex(col, attr, k)]

\* insert_one on a collection without the unique index on attr
InsertOneNoIndex(col, attr, doc, oid) == Append(col, doc @@ [_id |-> oid])

\* col.insert_one(doc) under create_index(attr, unique=True): the document is
\* appended with a fresh _id, or DuplicateKeyError leaves the collection as is
InsertOne(col, attr, doc, oid) ==
    IF FirstIndex(col, attr, doc[attr]) # 0 THEN col ELSE Append(col, doc @@ [_id |-> oid])

InsertOneFails(col, attr, doc) == FirstIndex(col, attr, doc[attr]) # 0

\* a document without its storage-assigned _id
Fields(doc) == [f \in (DOMAIN doc) \ {"_id"} |-> doc[f]]

-----------------------------------------------------------------------------
(* Clients and request bookkeeping *)

Clients == {"c1", "c2"}
Apps == {"A", "B"}

Idle == "idle"
NoReq == [op |-> "none"]
NoResp == [status |-> "none"]
NoLast == [client |-> "none", op |-> "none", photo_id |-> 0, resp |-> NoResp, io |-> <<>>]

AllIdle == \A c \in Clients : pc[c] = Idle

\* Part C before its first run
NoMig ==
    [pc |-> "off", run |-> 0, table |-> "users", order |-> <<>>, items |-> <<>>,
     last_key |-> None, empty |-> 0, ops |-> <<>>, upserted |-> 0, modified |-> 0,
     out |-> <<>>, src0 |-> <<{}, {}>>, dst0 |-> <<<<>>, <<>>>>, prev |-> None]

\* a handler's return (or the exception that ends it): the response of route
\* op, reached after the store calls in log, goes to the client
Return(c, op, photo_id, r, log) ==
    /\ last = NoLast
    /\ pc' = [pc EXCEPT ![c] = Idle]
    /\ req' = [req EXCEPT ![c] = NoReq]
    /\ io' = [io EXCEPT ![c] = <<>>]
    /\ last' = [client |-> c, op |-> op, photo_id |-> photo_id, resp |-> r, io |-> log]

\* the handler goes on to position at, having made the store calls in log
Goto(c, at, locals, log) ==
    /\ last = NoLast
    /\ pc' = [pc EXCEPT ![c] = at]
    /\ req' = [req EXCEPT ![c] = locals]
    /\ io' = [io EXCEPT ![c] = log]
    /\ UNCHANGED last

\* the response reaches its client; until then no other handler step is taken,
\* so that every response is seen together with the state it was computed in
Deliver ==
    /\ last # NoLast
    /\ last' = NoLast
    /\ UNCHANGED <<stores, next_oid, next_uuid, now, session, pc, req, io, created, mig,
                   deployed>>

Redirect(to, msg) == [status |-> "redirect", to |-> to, flash |-> msg]

Error500(what) == [status |-> "error", to |-> "none", flash |-> what]

\* the values datetime.utcnow() may return at a call, with clock bound `bound`:
\* the clock never runs backwards, and two calls may read the same value
Times(bound) == now..bound

-----------------------------------------------------------------------------
(* Registration: register() of Part A and of Part B *)

RegUsernames == {<<>>, <<"a">>, <<" ", "a", " ">>, <<"b">>}
RegPasswords == {<<" ">>, <<"p">>, <<"q">>}
RegEmails == {<<>>, <<"e">>}

UserRecord(username, password, email, at) ==
    [username |-> username, password |-> _pw(password), email |-> email,
     created_at |-> at]

\* a register() whose existence check never finds the user
UsernameTakenNever(app, username) == FALSE

\* Part A: "Item" in users_tbl.get_item(...); Part B: users_col.find_one(...)
UsernameTaken(app, username) ==
    IF app = "A" THEN HasItem(users_tbl, "username", username)
    ELSE FindOne(users_col, "username", username) # None

\* POST /register: the form is read and validated; no store is touched yet
RegisterBegin(c, app, username_raw, password_raw, email_raw) ==
    LET username == strip(username_raw)
        password == strip(password_raw)
        email == strip(email_raw)
    IN  /\ pc[c] = Idle
        /\ app \in deployed
        /\ IF username = <<>> \/ password = <<>>
           THEN Return(c, "register", 0,
                       Redirect("register", "Username and password are required."), <<>>)
           ELSE Goto(c, "reg_check",
                     [op |-> "register", app |-> app, username |-> username,
                      password |-> password, email |-> email], <<>>)
        /\ UNCHANGED <<stores, next_oid, next_uuid, now, session, created, mig, deployed>>

\* the existence check: get_item (Part A) or find_one (Part B)
RegisterCheck(c) ==
    LET log == Append(io[c], <<"users", "read">>)
    IN  /\ pc[c] = "reg_check"
        /\ IF UsernameTaken(req[c].app, req[c].username)
           THEN Return(c, "register", 0,
                       Redirect("register", "Username already taken."), log)
           ELSE Goto(c, "reg_write", req[c], log)
        /\ UNCHANGED <<stores, next_oid, next_uuid, now, session, created, mig, deployed>>

\* the write: put_item (Part A) or insert_one under the unique index (Part B)
RegisterWrite(c, t) ==
    LET r == req[c]
        item == UserRecord(r.username, r.password, r.email, t)
        log == Append(io[c], <<"users", "write">>)
    IN  /\ pc[c] = "reg_write"
        /\ now' = t
        /\ IF r.app = "A"
           THEN /\ users_tbl' = PutItem(users_tbl, "username", item)
                /\ Return(c, "register", 0, Redirect("login", "Account created."), log)
                /\ UNCHANGED <<users_col, next_oid>>
           ELSE /\ users_col' = InsertOne(users_col, "username", item, next_oid)
                /\ next_oid' = IF InsertOneFails(users_col, "username", item)
                               THEN next_oid ELSE next_oid + 1
                /\ IF InsertOneFails(users_col, "username", item)
                   THEN Return(c, "register", 0, Error500("DuplicateKeyError"), log)
                   ELSE Return(c, "register", 0,
                               Redirect("login", "Account created."), log)
                /\ UNCHANGED users_tbl
        /\ UNCHANGED <<photos_tbl, photos_col, s3, next_uuid, session, created, mig,
                       deployed>>

\* one application deployed, its stores empty, no request in flight
InitReg ==
    /\ users_tbl = {} /\ photos_tbl = {}
    /\ users_col = <<>> /\ photos_col = <<>>
    /\ s3 = {}
    /\ next_oid = 1 /\ next_uuid = 0 /\ now = 0
    /\ session = [c \in Clients |-> NoUser]
    /\ pc = [c \in Clients |-> Idle]
    /\ req = [c \in Clients |-> NoReq]
    /\ io = [c \in Clients |-> <<>>]
    /\ last = NoLast
    /\ created = {}
    /\ mig = NoMig
    /\ deployed \in {{"A"}, {"B"}}

RegisterRequest(c) ==
    \E app \in Apps, u \in RegUsernames, p \in RegPasswords, e \in RegEmails :
        RegisterBegin(c, app, u, p, e)

\* register requests executed one after another
NextRegSeq ==
    \/ \E c \in Clients : AllIdle /\ RegisterRequest(c)
    \/ \E c \in Clients : RegisterCheck(c)
    \/ \E c \in Clients, t \in Times(MaxRegClock) : RegisterWrite(c, t)
    \/ Deliver

SpecRegSeq == InitReg /\ [][NextRegSeq]_vars

\* register requests of different clients interleaved at every store call
NextRegConc ==
    \/ \E c \in Clients : RegisterRequest(c)
    \/ \E c \in Clients : RegisterCheck(c)
    \/ \E c \in Clients, t \in Times(MaxRegClock) : RegisterWrite(c, t)
    \/ Deliver

SpecRegConc == InitReg /\ [][NextRegConc]_vars

-----------------------------------------------------------------------------
(* Photo records *)

\* f"photos/{session['username']}/{pid}_{safe}"
S3Key(username, pid, safe) == <<"photos", username, pid, safe>>

\* a record filed under the empty username, whoever uploads
PhotoRecordUnowned(pid, username, safe, tags, desc, at) ==
    [photo_id |-> pid, username |-> <<>>, filename |-> safe,
     s3_key |-> S3Key(username, pid, safe), tags |-> tags, description |-> desc,
     uploaded_at |-> at]

PhotoRecord(pid, username, safe, tags, desc, at) ==
    [photo_id |-> pid, username |-> username, filename |-> safe,
     s3_key |-> S3Key(username, pid, safe), tags |-> tags, description |-> desc,
     uploaded_at |-> at]

-----------------------------------------------------------------------------
(* File names *)

Txt_png == <<"p", "n", "g">>
ALLOWED_EXT ==
    {Txt_png, <<"j", "p", "g">>, <<"j", "p", "e", "g">>, <<"g", "i", "f">>,
     <<"b", "m", "p">>, <<"w", "e", "b", "p">>}

\* position of the last "." of name, 0 if it has none
LastDot(name) ==
    IF \E i \in 1..Len(name) : name[i] = "."
    THEN CHOOSE i \in 1..Len(name) :
             name[i] = "." /\ \A j \in (i + 1)..Len(name) : name[j] # "."
    ELSE 0

\* name.rsplit(".", 1)[1]
Extension(name) == SubSeq(name, LastDot(name) + 1, Len(name))

\* an extension test that skips .lower()
_ok_file_case_sensitive(name) == LastDot(name) # 0 /\ Extension(name) \in ALLOWED_EXT

_ok_file(name) == LastDot(name) # 0 /\ lower(Extension(name)) \in ALLOWED_EXT

RECURSIVE StripChars(_, _)
\* str.strip(chars)
StripChars(s, chars) ==
    IF s # <<>> /\ Head(s) \in chars THEN StripChars(Tail(s), chars)
    ELSE IF s # <<>> /\ s[Len(s)] \in chars
         THEN StripChars(SubSeq(s, 1, Len(s) - 1), chars)
         ELSE s

RECURSIVE JoinWords(_)
\* "_".join(s.split()) on a text without leading or trailing whitespace
JoinWords(s) ==
    IF s = <<>> THEN <<>>
    ELSE IF Head(s) \in Whitespace
         THEN IF Len(s) > 1 /\ s[2] \in Whitespace THEN JoinWords(Tail(s))
              ELSE <<"_">> \o JoinWords(Tail(s))
         ELSE <<Head(s)>> \o JoinWords(Tail(s))

\* werkzeug.utils.secure_filename on the model's alphabet (letters, ".", " "):
\* whitespace runs become "_", then leading and trailing "." and "_" go
secure_filename(name) == StripChars(JoinWords(strip(name)), {".", "_"})

\* {"$regex": q, "$options": "i"}: q is a pattern, "." matches any character,
\* every other character of the alphabet matches itself in either case; the
\* pattern may match anywhere in the text
RegexSearch(text, q) ==
    \E i \in 0..(Len(text) - Len(q)) :
        \A k \in 1..Len(q) : q[k] = "." \/ LowerChar(q[k]) = LowerChar(text[i + k])

-----------------------------------------------------------------------------
(* Sessions: login() and logout() *)

LoginPasswords == {<<"p">>, <<"q">>}

\* the user record login() reads: get_item (Part A) or find_one (Part B)
StoredUser(app, username) ==
    IF app = "A" THEN GetItem(users_tbl, "username", username)
    ELSE FindOne(users_col, "username", username)

\* a login that accepts any password of an existing user
CredentialsOkAnyPassword(user, password) == user # None

\* user and user["password"] == _pw(password)
CredentialsOk(user, password) == user # None /\ user.password = _pw(password)

\* POST /login: the form is read; no store is touched yet
Login(c, app, username_raw, password_raw) ==
    /\ pc[c] = Idle
    /\ app \in deployed
    /\ Goto(c, "login_check",
            [op |-> "login", app |-> app, username |-> strip(username_raw),
             password |-> strip(password_raw)], <<>>)
    /\ UNCHANGED <<stores, next_oid, next_uuid, now, session, created, mig, deployed>>

\* the user is read and the password digests compared: the session gets the
\* username, or the login page comes back with "Invalid credentials."
LoginCheck(c) ==
    LET user == StoredUser(req[c].app, req[c].username)
        log == Append(io[c], <<"users", "read">>)
    IN  /\ pc[c] = "login_check"
        /\ IF CredentialsOk(user, req[c].password)
           THEN /\ session' = [session EXCEPT ![c] = req[c].username]
                /\ Return(c, "login", 0, Redirect("gallery", "Welcome back."), log)
           ELSE /\ Return(c, "login", 0,
                          [status |-> "page", template |-> "login",
                           flash |-> "Invalid credentials."], log)
                /\ UNCHANGED session
        /\ UNCHANGED <<stores, next_oid, next_uuid, now, created, mig, deployed>>

\* GET /logout: session.pop("username", None)
Logout(c, app) ==
    /\ pc[c] = Idle
    /\ app \in deployed
    /\ session' = [session EXCEPT ![c] = NoUser]
    /\ Return(c, "logout", 0, Redirect("login", "Logged out."), <<>>)
    /\ UNCHANGED <<stores, next_oid, next_uuid, now, created, mig, deployed>>

\* if "username" not in session: return redirect(url_for("login"))
ToLogin == Redirect("login", "")

-----------------------------------------------------------------------------
(* The photo stores of the two applications *)

\* the photo records of application app, without storage ids
PhotoRecords(app) ==
    IF app = "A" THEN photos_tbl
    ELSE {Fields(photos_col[i]) : i \in 1..Len(photos_col)}

\* Part A: photos_tbl.put_item(Item=rec); Part B: photos_col.insert_one(rec)
PhotoWrite(app, rec) ==
    IF app = "A"
    THEN /\ photos_tbl' = PutItem(photos_tbl, "photo_id", rec)
         /\ UNCHANGED <<photos_col, next_oid>>
    ELSE /\ photos_col' = InsertOne(photos_col, "photo_id", rec, next_oid)
         /\ next_oid' = IF InsertOneFails(photos_col, "photo_id", rec)
                        THEN next_oid ELSE next_oid + 1
         /\ UNCHANGED photos_tbl

\* a record deletion that deletes nothing
PhotoDeleteKeeps(app, pid) == UNCHANGED <<photos_tbl, photos_col, next_oid>>

\* Part A: photos_tbl.delete_item(Key={"photo_id": pid});
\* Part B: photos_col.delete_one({"photo_id": pid})
PhotoDelete(app, pid) ==
    IF app = "A"
    THEN /\ photos_tbl' = DeleteItem(photos_tbl, "photo_id", pid)
         /\ UNCHANGED <<photos_col, next_oid>>
    ELSE /\ photos_col' = SelectSeq(photos_col, LAMBDA d : d.photo_id # pid)
         /\ UNCHANGED <<photos_tbl, next_oid>>

\* a lookup by photo_id alone, whoever owns the photo
PhotoOfAnyOwner(app, pid, username) ==
    IF app = "A" THEN GetItem(photos_tbl, "photo_id", pid)
    ELSE FindOne(photos_col, "photo_id", pid)

\* the record download() and delete() act on, None for "Photo not found.":
\* Part A: get_item by photo_id, then item["username"] != session["username"];
\* Part B: find_one({"photo_id": pid, "username": session["username"]})
PhotoOfOwner(app, pid, username) ==
    IF app = "A"
    THEN LET item == GetItem(photos_tbl, "photo_id", pid)
         IN  IF item = None \/ item.username # username THEN None ELSE item
    ELSE IF \E i \in 1..Len(photos_col) :
                photos_col[i].photo_id = pid /\ photos_col[i].username = username
         THEN photos_col[CHOOSE i \in 1..Len(photos_col) :
                  /\ photos_col[i].photo_id = pid /\ photos_col[i].username = username
                  /\ \A j \in 1..(i - 1) :
                         ~(photos_col[j].photo_id = pid
                           /\ photos_col[j].username = username)]
         ELSE None

NotFound == Redirect("gallery", "Photo not found.")

-----------------------------------------------------------------------------
(* upload() *)

\* photo ids uuid.uuid4() hands out in one behaviour. The ids are opaque and
\* fresh; the model numbers them in the order in which they reach a store, so
\* an id whose blob write failed, which nothing holds, is not counted.
MaxUuids == 2

\* the files of a request that the loop stores
Storable(files) == SelectSeq(files, LAMBDA f : f # <<>> /\ _ok_file(f))

\* POST /upload up to the loop: session check, file list check, form fields
UploadBegin(c, app, files, tags_raw, desc_raw) ==
    /\ pc[c] = Idle
    /\ app \in deployed
    /\ next_uuid + Len(Storable(files)) <= MaxUuids
    /\ IF session[c] = NoUser THEN Return(c, "upload", 0, ToLogin, <<>>)
       ELSE IF files = <<>> \/ files[1] = <<>>
       THEN Return(c, "upload", 0, Redirect("upload", "No files selected."), <<>>)
       ELSE Goto(c, "up_file",
                 [op |-> "upload", app |-> app, username |-> session[c],
                  files |-> files, tags |-> strip(tags_raw),
                  description |-> strip(desc_raw), count |-> 0], <<>>)
    /\ UNCHANGED <<stores, next_oid, next_uuid, now, session, created, mig, deployed>>

\* an upload that swallows the exception of upload_fileobj and goes on
AfterPutFailureGoOn(c, locals, log) == Goto(c, "up_meta", locals, log)

\* s3_client.upload_fileobj raised: the exception ends the handler
AfterPutFailure(c, locals, log) ==
    Return(c, "upload", locals.photo_id, Error500("upload_fileobj"), log)

\* the loop head and s3_client.upload_fileobj: a file that is not storable is
\* skipped; for a storable one the id and key are made and the blob is written
\* (ok) or the call raises (~ok); after the last file the count is flashed
UploadFile(c, ok) ==
    LET r == req[c]
        f == Head(r.files)
        safe == secure_filename(f)
        pid == next_uuid + 1
        key == S3Key(r.username, pid, safe)
        log == Append(io[c], <<"s3", "put", key>>)
    IN  /\ pc[c] = "up_file"
        /\ IF r.files = <<>>
           THEN /\ ok
                /\ Return(c, "upload", 0,
                          [status |-> "redirect", to |-> "gallery",
                           flash |-> "Uploaded photo(s).", count |-> r.count], io[c])
                /\ UNCHANGED <<s3, next_uuid>>
           ELSE IF ~(f # <<>> /\ _ok_file(f))
           THEN /\ ok
                /\ Goto(c, "up_file", [r EXCEPT !.files = Tail(@)], io[c])
                /\ UNCHANGED <<s3, next_uuid>>
           ELSE IF ok
           THEN /\ s3' = s3 \cup {key}
                /\ next_uuid' = pid
                /\ Goto(c, "up_meta",
                        r @@ [photo_id |-> pid, safe |-> safe, s3_key |-> key], log)
           ELSE /\ AfterPutFailure(c, r @@ [photo_id |-> pid, safe |-> safe, s3_key |-> key],
                                   log)
                /\ UNCHANGED <<s3, next_uuid>>
        /\ UNCHANGED <<users_tbl, photos_tbl, users_col, photos_col, next_oid, now,
                       session, created, mig, deployed>>

\* photos_tbl.put_item / photos_col.insert_one, then count += 1
UploadMeta(c, ok, t) ==
    LET r == req[c]
        rec == PhotoRecord(r.photo_id, r.username, r.safe, r.tags, r.description, t)
        log == Append(io[c], <<"photos", "write", r.s3_key>>)
    IN  /\ pc[c] = "up_meta"
        /\ now' = t
        /\ IF ok
           THEN /\ PhotoWrite(r.app, rec)
                /\ created' = created \cup {[photo_id |-> r.photo_id, by |-> session[c],
                                             nth |-> Cardinality(created) + 1]}
                /\ Goto(c, "up_file",
                        [op |-> "upload", app |-> r.app, username |-> r.username,
                         files |-> Tail(r.files), tags |-> r.tags,
                         description |-> r.description, count |-> r.count + 1], log)
           ELSE /\ Return(c, "upload", r.photo_id, Error500("photo write"), log)
                /\ UNCHANGED <<photos_tbl, photos_col, next_oid, created>>
        /\ UNCHANGED <<users_tbl, users_col, s3, next_uuid, session, mig, deployed>>

-----------------------------------------------------------------------------
(* gallery() and search() *)

\* the orders in which a result set may come back sorted by uploaded_at
\* descending; records with equal uploaded_at come in the order of the scan
\* (Part A, then a stable sort) or of the server's sort (Part B), which
\* neither store fixes
SortedDescending(recs) ==
    {o \in ScanOrders(recs) :
        \A i, j \in 1..Len(o) : i < j => o[i].uploaded_at >= o[j].uploaded_at}

\* a listing that forgets the owner filter
OwnedByAnyone(app, username) == PhotoRecords(app)

\* scan(FilterExpression=Attr("username").eq(username)) /
\* find({"username": username})
OwnedBy(app, username) == {r \in PhotoRecords(app) : r.username = username}

\* GET /gallery
Gallery(c, app) ==
    /\ pc[c] = Idle
    /\ app \in deployed
    /\ IF session[c] = NoUser
       THEN Return(c, "gallery", 0, ToLogin, <<>>)
       ELSE \E photos \in SortedDescending(OwnedBy(app, session[c])) :
                Return(c, "gallery", 0,
                       [status |-> "page", template |-> "gallery", photos |-> photos,
                        username |-> session[c]],
                       <<<<"photos", "read">>>>)
    /\ UNCHANGED <<stores, next_oid, next_uuid, now, session, created, mig, deployed>>

\* the query as search() uses it: Part A strips and lower-cases it, Part B
\* strips it
Query(app, q_raw) == IF app = "A" THEN lower(strip(q_raw)) ELSE strip(q_raw)

\* Part A: q in the lower-cased filename, tags or description;
\* Part B: $or of the case-insensitive $regex q on the three fields
Matches(app, rec, q) ==
    IF app = "A"
    THEN \/ Contains(lower(rec.filename), q)
         \/ Contains(lower(rec.tags), q)
         \/ Contains(lower(rec.description), q)
    ELSE \/ RegexSearch(rec.filename, q)
         \/ RegexSearch(rec.tags, q)
         \/ RegexSearch(rec.description, q)

\* the result lists search() may render: Part A filters the scan in scan
\* order, Part B returns the matching documents in collection order
SearchResults(app, username, q) ==
    IF app = "A"
    THEN ScanOrders({r \in OwnedBy(app, username) : Matches(app, r, q)})
    ELSE {[i \in 1..Len(SelectSeq(photos_col,
                  LAMBDA d : d.username = username /\ Matches(app, d, q))) |->
              Fields(SelectSeq(photos_col,
                  LAMBDA d : d.username = username /\ Matches(app, d, q))[i])]}

\* a search that treats the empty query as "no filter"
EmptyQueryAll(q) == FALSE

\* if not q: return render_template("search.html", photos=[], query="")
EmptyQuery(q) == q = <<>>

\* GET /search?q=...
Search(c, app, q_raw) ==
    LET q == Query(app, q_raw)
    IN  /\ pc[c] = Idle
        /\ app \in deployed
        /\ IF session[c] = NoUser
           THEN Return(c, "search", 0, ToLogin, <<>>)
           ELSE IF EmptyQuery(q)
           THEN Return(c, "search", 0,
                       [status |-> "page", template |-> "search", photos |-> <<>>,
                        query |-> <<>>], <<>>)
           ELSE \E photos \in SearchResults(app, session[c], q) :
                    Return(c, "search", 0,
                           [status |-> "page", template |-> "search",
                            photos |-> photos, query |-> q],
                           <<<<"photos", "read">>>>)
        /\ UNCHANGED <<stores, next_oid, next_uuid, now, session, created, mig, deployed>>

-----------------------------------------------------------------------------
(* download() and delete() *)

\* GET /download/<photo_id> up to the owner check
Download(c, app, photo_id) ==
    LET item == PhotoOfOwner(app, photo_id, session[c])
        log == <<<<"photos", "read">>>>
    IN  /\ pc[c] = Idle
        /\ app \in deployed
        /\ IF session[c] = NoUser THEN Return(c, "download", photo_id, ToLogin, <<>>)
           ELSE IF item = None THEN Return(c, "download", photo_id, NotFound, log)
           ELSE Goto(c, "dl_blob",
                     [op |-> "download", app |-> app, photo_id |-> photo_id,
                      username |-> session[c], item |-> item], log)
        /\ UNCHANGED <<stores, next_oid, next_uuid, now, session, created, mig, deployed>>

\* s3_client.get_object and send_file; a missing key raises NoSuchKey
DownloadBlob(c) ==
    LET item == req[c].item
        log == Append(io[c], <<"s3", "get", item.s3_key>>)
    IN  /\ pc[c] = "dl_blob"
        /\ IF item.s3_key \in s3
           THEN Return(c, "download", req[c].photo_id,
                       [status |-> "file", key |-> item.s3_key,
                        download_name |-> item.filename], log)
           ELSE Return(c, "download", req[c].photo_id, Error500("NoSuchKey"), log)
        /\ UNCHANGED <<stores, next_oid, next_uuid, now, session, created, mig, deployed>>

\* POST /delete/<photo_id> up to the owner check
Delete(c, app, photo_id) ==
    LET item == PhotoOfOwner(app, photo_id, session[c])
        log == <<<<"photos", "read">>>>
    IN  /\ pc[c] = Idle
        /\ app \in deployed
        /\ IF session[c] = NoUser THEN Return(c, "delete", photo_id, ToLogin, <<>>)
           ELSE IF item = None THEN Return(c, "delete", photo_id, NotFound, log)
           ELSE Goto(c, "del_blob",
                     [op |-> "delete", app |-> app, photo_id |-> photo_id,
                      username |-> session[c], item |-> item], log)
        /\ UNCHANGED <<stores, next_oid, next_uuid, now, session, created, mig, deployed>>

\* a delete that goes on to the record although the blob deletion raised
AfterBlobFailureGoOn(c, log) == Goto(c, "del_meta", req[c], log)

\* s3_client.delete_object raised: the exception ends the handler
AfterBlobFailure(c, log) ==
    Return(c, "delete", req[c].photo_id, Error500("delete_object"), log)

\* s3_client.delete_object(Bucket=S3_BUCKET, Key=item["s3_key"]): the object is
\* removed (no error when it is absent), or the call raises (~ok)
DeleteBlob(c, ok) ==
    LET item == req[c].item
        log == Append(io[c], <<"s3", "delete", item.s3_key>>)
    IN  /\ pc[c] = "del_blob"
        /\ IF ok
           THEN /\ s3' = s3 \ {item.s3_key}
                /\ Goto(c, "del_meta", req[c], log)
           ELSE /\ AfterBlobFailure(c, log)
                /\ UNCHANGED s3
        /\ UNCHANGED <<users_tbl, photos_tbl, users_col, photos_col, next_oid, next_uuid,
                       now, session, created, mig, deployed>>

\* photos_tbl.delete_item / photos_col.delete_one, then "Photo deleted."
DeleteMeta(c) ==
    LET log == Append(io[c], <<"photos", "delete", req[c].photo_id>>)
    IN  /\ pc[c] = "del_meta"
        /\ PhotoDelete(req[c].app, req[c].photo_id)
        /\ Return(c, "delete", req[c].photo_id, Redirect("gallery", "Photo deleted."), log)
        /\ UNCHANGED <<users_tbl, users_col, s3, next_uuid, now, session, created, mig,
                       deployed>>

-----------------------------------------------------------------------------
(* The gallery: both users registered, requests of all clients interleaved *)

Alice == <<"a">>
Bob == <<"b">>

\* datetime.utcnow() takes values 0..MaxGalleryClock in the gallery
MaxGalleryClock == 1

\* request.files.getlist("photos"): the file names of a request
FileLists == {<<>>, <<<<>>>>, <<<<"a", ".", "b">>, <<" ", "B", ".", "P", "N", "G">>>>}
TagTexts == {<<"A", " ">>}
DescTexts == {<<>>}
Queries == {<<>>, <<" ">>, <<"B">>, <<".", "p">>, <<".", "n">>, <<"x">>}
\* the <photo_id> of a URL: every id handed out, and one that never is
PhotoIds == 1..(MaxUuids + 1)

\* both users registered with the deployed application; the first client is
\* logged in as Alice, the second as Alice, as Bob, or not at all
InitGallery ==
    /\ deployed \in {{"A"}, {"B"}}
    /\ users_tbl = IF "A" \in deployed
                   THEN {UserRecord(Alice, <<"p">>, <<>>, 0), UserRecord(Bob, <<"q">>, <<>>, 0)}
                   ELSE {}
    /\ users_col = IF "B" \in deployed
                   THEN <<UserRecord(Alice, <<"p">>, <<>>, 0) @@ [_id |-> 1],
                          UserRecord(Bob, <<"q">>, <<>>, 0) @@ [_id |-> 2]>>
                   ELSE <<>>
    /\ photos_tbl = {} /\ photos_col = <<>> /\ s3 = {}
    /\ next_oid = 3 /\ next_uuid = 0 /\ now = 0
    /\ session \in {[c \in Clients |-> IF c = "c1" THEN Alice ELSE u] :
                       u \in {Alice, Bob, NoUser}}
    /\ pc = [c \in Clients |-> Idle]
    /\ req = [c \in Clients |-> NoReq]
    /\ io = [c \in Clients |-> <<>>]
    /\ last = NoLast
    /\ created = {}
    /\ mig = NoMig

NextGallery ==
    \/ \E c \in Clients, app \in Apps, files \in FileLists, t \in TagTexts,
          d \in DescTexts : UploadBegin(c, app, files, t, d)
    \/ \E c \in Clients, ok \in BOOLEAN : UploadFile(c, ok)
    \/ \E c \in Clients, ok \in BOOLEAN, t \in Times(MaxGalleryClock) : UploadMeta(c, ok, t)
    \/ \E c \in Clients, app \in Apps : Gallery(c, app)
    \/ \E c \in Clients, app \in Apps, q \in Queries : Search(c, app, q)
    \/ \E c \in Clients, app \in Apps, id \in PhotoIds : Download(c, app, id)
    \/ \E c \in Clients : DownloadBlob(c)
    \/ \E c \in Clients, app \in Apps, id \in PhotoIds : Delete(c, app, id)
    \/ \E c \in Clients, ok \in BOOLEAN : DeleteBlob(c, ok)
    \/ \E c \in Clients : DeleteMeta(c)
    \/ Deliver

SpecGallery == InitGallery /\ [][NextGallery]_vars

-----------------------------------------------------------------------------
(* Sessions: clients log in and out between their gallery requests *)

\* request.form["username"] of a login: the registered users and a stranger
LoginUsernames == {Alice, Bob, <<"x">>}

\* both users registered with the deployed application, nobody logged in
InitSession ==
    /\ deployed \in {{"A"}, {"B"}}
    /\ users_tbl = IF "A" \in deployed
                   THEN {UserRecord(Alice, <<"p">>, <<>>, 0), UserRecord(Bob, <<"q">>, <<>>, 0)}
                   ELSE {}
    /\ users_col = IF "B" \in deployed
                   THEN <<UserRecord(Alice, <<"p">>, <<>>, 0) @@ [_id |-> 1],
                          UserRecord(Bob, <<"q">>, <<>>, 0) @@ [_id |-> 2]>>
                   ELSE <<>>
    /\ photos_tbl = {} /\ photos_col = <<>> /\ s3 = {}
    /\ next_oid = 3 /\ next_uuid = 0 /\ now = 0
    /\ session = [c \in Clients |-> NoUser]
    /\ pc = [c \in Clients |-> Idle]
    /\ req = [c \in Clients |-> NoReq]
    /\ io = [c \in Clients |-> <<>>]
    /\ last = NoLast
    /\ created = {}
    /\ mig = NoMig

\* the first client makes every kind of request, the second logs in and out
\* and asks for its gallery
NextSession ==
    \/ \E c \in Clients, app \in Apps, u \in LoginUsernames, p \in LoginPasswords :
           Login(c, app, u, p)
    \/ \E c \in Clients : LoginCheck(c)
    \/ \E c \in Clients, app \in Apps : Logout(c, app)
    \/ \E c \in Clients, app \in Apps : Gallery(c, app)
    \/ \E app \in Apps, files \in FileLists, t \in TagTexts, d \in DescTexts :
           UploadBegin("c1", app, files, t, d)
    \/ \E ok \in BOOLEAN : UploadFile("c1", ok)
    \/ \E ok \in BOOLEAN, t \in Times(MaxGalleryClock) : UploadMeta("c1", ok, t)
    \/ \E app \in Apps, q \in Queries : Search("c1", app, q)
    \/ \E app \in Apps, id \in PhotoIds : Download("c1", app, id)
    \/ DownloadBlob("c1")
    \/ \E app \in Apps, id \in PhotoIds : Delete("c1", app, id)
    \/ \E ok \in BOOLEAN : DeleteBlob("c1", ok)
    \/ DeleteMeta("c1")
    \/ Deliver

SpecSession == InitSession /\ [][NextSession]_vars

-----------------------------------------------------------------------------
(* Intake: one client registers, logs in and uploads, on either application *)

IntakeUsernames == {<<>>, <<" ">>, <<"a">>}
IntakePasswords == {<<" ">>, <<"p">>}

NextIntake ==
    \/ \E app \in Apps, u \in IntakeUsernames, p \in IntakePasswords :
           RegisterBegin("c1", app, u, p, <<>>)
    \/ RegisterCheck("c1")
    \/ \E t \in Times(MaxRegClock) : RegisterWrite("c1", t)
    \/ \E app \in Apps, u \in IntakeUsernames, p \in LoginPasswords :
           Login("c1", app, u, p)
    \/ LoginCheck("c1")
    \/ \E app \in Apps : Logout("c1", app)
    \/ \E app \in Apps, files \in FileLists, t \in TagTexts, d \in DescTexts :
           UploadBegin("c1", app, files, t, d)
    \/ \E ok \in BOOLEAN : UploadFile("c1", ok)
    \/ \E ok \in BOOLEAN, t \in Times(MaxGalleryClock) : UploadMeta("c1", ok, t)
    \/ Deliver

SpecIntake == InitReg /\ [][NextIntake]_vars

-----------------------------------------------------------------------------
(* Part C: migrate_dynamo_to_mongo.py *)

\* pages without items that still carry a continuation token, per scan
MaxEmptyPages == 1
\* runs of main() in one behaviour
MaxRuns == 2

KeyAttr(table) == IF table = "users" THEN "username" ELSE "photo_id"
SourceTable(table) == IF table = "users" THEN users_tbl ELSE photos_tbl
DestCol(table) == IF table = "users" THEN users_col ELSE photos_col

\* a scan that ignores ExclusiveStartKey: every fetch starts at the beginning
StartIndexIgnoresKey(order, attr, start_key) == 0

\* where a fetch with ExclusiveStartKey=start_key resumes: after the item
\* that has this key (from the beginning without one)
StartIndex(order, attr, start_key) ==
    IF start_key = None THEN 0
    ELSE CHOOSE i \in 1..Len(order) : order[i][attr] = start_key.key

\* table.scan(**kwargs): the possible pages. A page holds the next n items
\* (n >= 0); it carries LastEvaluatedKey, the key of the last item evaluated,
\* whenever items remain, and may carry it when none remain.
ScanPages(order, attr, start_key) ==
    LET s == StartIndex(order, attr, start_key)
    IN  {[Items |-> SubSeq(order, s + 1, s + n),
          LastEvaluatedKey |->
              IF more THEN [key |-> order[s + n][attr]] ELSE None] :
            <<n, more>> \in
                {x \in (0..(Len(order) - s)) \X BOOLEAN :
                    /\ x[2] => s + x[1] >= 1
                    /\ ~x[2] => s + x[1] = Len(order)}}

\* ReplaceOne that leaves nothing but doc in the collection
ReplaceOneAlone(col, attr, doc, oid) == <<doc @@ [_id |-> oid]>>

\* ReplaceOne without replace-if-exists: a document that has the key is kept
ReplaceOneKeepsExisting(col, attr, doc, oid) ==
    IF FirstIndex(col, attr, doc[attr]) = 0 THEN Append(col, doc @@ [_id |-> oid])
    ELSE col

\* ReplaceOne that inserts whatever the collection holds
ReplaceOneInserts(col, attr, doc, oid) == Append(col, doc @@ [_id |-> oid])

\* ReplaceOne({attr: doc[attr]}, doc, upsert=True): the first document with the
\* key is replaced and keeps its _id; without one, doc is inserted
ReplaceOneUpsert(col, attr, doc, oid) ==
    LET i == FirstIndex(col, attr, doc[attr])
    IN  IF i = 0 THEN Append(col, doc @@ [_id |-> oid])
        ELSE [col EXCEPT ![i] = doc @@ [_id |-> col[i]._id]]

\* the op counts in BulkWriteResult.upserted_count
IsUpsert(col, attr, doc) == FirstIndex(col, attr, doc[attr]) = 0

\* the op counts in BulkWriteResult.modified_count: a document was matched and
\* the replacement changed it
IsModify(col, attr, doc) ==
    /\ FirstIndex(col, attr, doc[attr]) # 0
    /\ Fields(col[FirstIndex(col, attr, doc[attr])]) # doc

\* no run is in progress: none started yet, or the last one printed
\* "Migration complete!" or ended in an exception
MigIdle == mig.pc \in {"off", "done", "failed"}

\* scan_all(table_name), lines 39-40: items, last_key = [], None
StartScan(m, table, order) ==
    [m EXCEPT !.pc = "scan", !.table = table, !.order = order, !.items = <<>>,
              !.last_key = None, !.empty = 0]

\* after a collection: migrate_photos() follows migrate_users(), and
\* "Migration complete!" follows migrate_photos()
AfterCollection(m, order) ==
    IF m.table = "users" THEN StartScan(m, "photos", order)
    ELSE [m EXCEPT !.pc = "done", !.out = Append(@, [line |-> "complete"])]

\* main(): the banner, then migrate_users() starts its scan
MigBegin ==
    /\ MigIdle
    /\ AllIdle
    /\ mig.run < MaxRuns
    /\ \E order \in ScanOrders(users_tbl) :
           mig' = StartScan(
                      [pc |-> "scan", run |-> mig.run + 1, table |-> "users",
                       order |-> <<>>, items |-> <<>>, last_key |-> None, empty |-> 0,
                       ops |-> <<>>, upserted |-> 0, modified |-> 0, out |-> <<>>,
                       src0 |-> <<users_tbl, photos_tbl>>,
                       dst0 |-> <<users_col, photos_col>>,
                       prev |-> IF mig.pc = "done"
                                THEN [src0 |-> mig.src0, dst0 |-> mig.dst0,
                                      out |-> mig.out]
                                ELSE None],
                      "users", order)
    /\ UNCHANGED <<stores, next_oid, next_uuid, now, session, pc, req, io, last, created,
                   deployed>>

\* one pass of scan_all's loop: a page is fetched and appended; without a
\* LastEvaluatedKey the scan returns, the count is printed, and an empty
\* collection is skipped while any other has its ops built
MigScanPage ==
    /\ mig.pc = "scan"
    /\ \E page \in ScanPages(mig.order, KeyAttr(mig.table), mig.last_key) :
       \E order \in ScanOrders(photos_tbl) :
        LET items == mig.items \o page.Items
            found == [line |-> "found", table |-> mig.table, n |-> Len(items)]
        IN  /\ (page.Items = <<>> /\ page.LastEvaluatedKey # None)
                   => mig.empty < MaxEmptyPages
            /\ mig' =
                 IF page.LastEvaluatedKey # None
                 THEN [mig EXCEPT !.items = items,
                                  !.last_key = page.LastEvaluatedKey,
                                  !.empty = IF page.Items = <<>> THEN @ + 1 ELSE @]
                 ELSE IF items = <<>>
                 THEN AfterCollection([mig EXCEPT !.items = items, !.last_key = None,
                                                  !.out = Append(@, found)], order)
                 ELSE [mig EXCEPT !.pc = "write", !.items = items, !.last_key = None,
                                  !.ops = items, !.upserted = 0, !.modified = 0,
                                  !.out = Append(@, found)]
    /\ UNCHANGED <<stores, next_oid, next_uuid, now, session, pc, req, io, last, created,
                   deployed>>

\* bulk_write(ops), ordered: the next ReplaceOne is applied; after the last
\* one the counts are printed
MigWriteOp ==
    /\ mig.pc = "write"
    /\ \E order \in ScanOrders(photos_tbl) :
        LET attr == KeyAttr(mig.table)
            col == DestCol(mig.table)
            doc == Head(mig.ops)
            new == ReplaceOneUpsert(col, attr, doc, next_oid)
            ups == mig.upserted + (IF IsUpsert(col, attr, doc) THEN 1 ELSE 0)
            mods == mig.modified + (IF IsModify(col, attr, doc) THEN 1 ELSE 0)
            m1 == [mig EXCEPT !.ops = Tail(@), !.upserted = ups, !.modified = mods]
        IN  /\ IF mig.table = "users"
               THEN users_col' = new /\ UNCHANGED photos_col
               ELSE photos_col' = new /\ UNCHANGED users_col
            /\ next_oid' = IF IsUpsert(col, attr, doc) THEN next_oid + 1 ELSE next_oid
            /\ mig' = IF Tail(mig.ops) # <<>> THEN m1
                      ELSE AfterCollection(
                               [m1 EXCEPT !.out = Append(@,
                                    [line |-> "upserted", table |-> mig.table,
                                     upserted |-> ups, modified |-> mods])], order)
    /\ UNCHANGED <<users_tbl, photos_tbl, s3, next_uuid, now, session, pc, req, io, last,
                   created, deployed>>

\* the traceback of an exception that no function of the script catches:
\* what names the failing call, left the ops of the batch not applied
ErrorLine(m, what) ==
    [line |-> "error", table |-> m.table, what |-> what,
     left |-> IF what = "write" THEN m.ops ELSE <<>>]

\* a scan_all that takes a failed fetch for the last page
AfterScanFailureGoOn(m) ==
    IF m.items = <<>>
    THEN [m EXCEPT !.pc = "failed", !.out = Append(@, ErrorLine(m, "scan"))]
    ELSE [m EXCEPT !.pc = "write", !.ops = m.items, !.upserted = 0, !.modified = 0,
                   !.out = Append(@, ErrorLine(m, "scan"))]

\* table.scan raised: nothing catches it in scan_all, migrate_* or main
AfterScanFailure(m) ==
    [m EXCEPT !.pc = "failed", !.out = Append(@, ErrorLine(m, "scan"))]

\* a page fetch fails
MigScanFails ==
    /\ mig.pc = "scan"
    /\ mig' = AfterScanFailure(mig)
    /\ UNCHANGED <<stores, next_oid, next_uuid, now, session, pc, req, io, last, created,
                   deployed>>

\* a bulk_write with ordered=False: the ops after a failing one are applied
AfterWriteFailureUnordered(m) ==
    IF Tail(m.ops) = <<>>
    THEN [m EXCEPT !.pc = "failed", !.out = Append(@, ErrorLine(m, "write"))]
    ELSE [m EXCEPT !.ops = Tail(@), !.out = Append(@, ErrorLine(m, "write"))]

\* bulk_write(ops) is ordered: the first failing op ends the batch with
\* BulkWriteError, which nothing catches
AfterWriteFailure(m) ==
    [m EXCEPT !.pc = "failed", !.out = Append(@, ErrorLine(m, "write"))]

\* the write of the next op fails
MigWriteFails ==
    /\ mig.pc = "write"
    /\ mig' = AfterWriteFailure(mig)
    /\ UNCHANGED <<stores, next_oid, next_uuid, now, session, pc, req, io, last, created,
                   deployed>>

-----------------------------------------------------------------------------
(* The migration: Part A in use, main() run up to MaxRuns times *)

\* a user registered with Part B only
Zed == <<"z">>

MigFile == <<"c", ".", "p", "n", "g">>

\* what the DynamoDB tables hold when the first run starts
MigSourceUsers ==
    {{}, {UserRecord(Alice, <<"p">>, <<>>, 0)},
     {UserRecord(Alice, <<"p">>, <<>>, 0), UserRecord(Bob, <<"q">>, <<>>, 0)}}

MigPhoto == PhotoRecord(1, Alice, MigFile, <<>>, <<>>, 0)

\* what the MongoDB users collection holds when the first run starts: nothing,
\* Alice as in the source (an earlier run), Alice with another password (her
\* own registration with Part B), Zed, or Alice and Zed
MigDestUsers ==
    {<<>>,
     <<UserRecord(Alice, <<"p">>, <<>>, 0) @@ [_id |-> 1]>>,
     <<UserRecord(Alice, <<"q">>, <<"e">>, 0) @@ [_id |-> 1]>>,
     <<UserRecord(Zed, <<"p">>, <<>>, 0) @@ [_id |-> 1]>>,
     <<UserRecord(Zed, <<"p">>, <<>>, 0) @@ [_id |-> 1],
       UserRecord(Alice, <<"q">>, <<"e">>, 0) @@ [_id |-> 2]>>}

\* Alice's photo is in the destination only after a run that found it in the
\* source, where it may have been deleted since
InitMig ==
    /\ deployed = {"A", "B"}
    /\ users_tbl \in MigSourceUsers
    /\ photos_tbl \in {{}, {MigPhoto}}
    /\ photos_tbl # {} => UsernameTaken("A", Alice)
    /\ users_col \in MigDestUsers
    /\ photos_col \in {<<>>, <<MigPhoto @@ [_id |-> 3]>>}
    /\ photos_col # <<>> => (/\ UsernameTaken("A", Alice)
                             /\ UsernameTaken("B", Alice))
    /\ s3 = {MigPhoto.s3_key}
    /\ next_oid = 4 /\ next_uuid = 1 /\ now = 0
    /\ session = [c \in Clients |->
                     IF c = "c1" /\ UsernameTaken("A", Alice) THEN Alice ELSE NoUser]
    /\ pc = [c \in Clients |-> Idle]
    /\ req = [c \in Clients |-> NoReq]
    /\ io = [c \in Clients |-> <<>>]
    /\ last = NoLast
    /\ created = {}
    /\ mig = NoMig

\* between runs Part A serves register and upload requests of the first client
NextMig ==
    \/ MigBegin
    \/ MigScanPage
    \/ MigWriteOp
    \/ MigScanFails
    \/ MigWriteFails
    \/ MigIdle /\ RegisterBegin("c1", "A", Bob, <<"q">>, <<>>)
    \/ RegisterCheck("c1")
    \/ \E t \in Times(MaxRegClock) : RegisterWrite("c1", t)
    \/ MigIdle /\ UploadBegin("c1", "A", <<MigFile>>, <<>>, <<>>)
    \/ \E ok \in BOOLEAN : UploadFile("c1", ok)
    \/ \E ok \in BOOLEAN, t \in Times(MaxGalleryClock) : UploadMeta("c1", ok, t)
    \/ Deliver

SpecMig == InitMig /\ [][NextMig]_vars

-----------------------------------------------------------------------------
(* Claims about registration *)

\* the user records of application app, without storage ids
UserRecords(app) ==
    IF app = "A" THEN users_tbl
    ELSE {Fields(users_col[i]) : i \in 1..Len(users_col)}

UsernamePresent(app, username) == \E r \in UserRecords(app) : r.username = username

AtMostOneUserPerName ==
    /\ \A r1, r2 \in users_tbl : r1.username = r2.username => r1 = r2
    /\ \A i, j \in 1..Len(users_col) :
           users_col[i].username = users_col[j].username => i = j

Taken == Redirect("register", "Username already taken.")
Created == Redirect("login", "Account created.")

\* a register handler that finds its username present answers Conflict and
\* writes nothing; no step removes or alters a stored user record
RejectsTakenAndKeeps ==
    /\ \A c \in Clients :
           (/\ pc[c] = "reg_check"
            /\ pc'[c] # "reg_check"
            /\ UsernamePresent(req[c].app, req[c].username))
           => (/\ last' = [client |-> c, op |-> "register", photo_id |-> 0,
                           resp |-> Taken, io |-> <<<<"users", "read">>>>]
               /\ pc'[c] = Idle
               /\ UNCHANGED stores)
    /\ \A app \in Apps : UserRecords(app) \subseteq UserRecords(app)'

\* C1: register calls executed one after another, on either backend, leave at
\* most one user record per username; a register call for a username already
\* present is rejected (Conflict) and leaves the stored record unchanged.
C1_Uniqueness == []AtMostOneUserPerName /\ [][RejectsTakenAndKeeps]_vars

\* a second register of a stored username has been rejected
C1_Witness ==
    /\ last.op = "register" /\ last.resp = Taken
    /\ \E app \in deployed : \E r \in UserRecords(app) : r.username = <<"a">>

\* the ways a losing createUser fails: the handler's own Conflict answer, or
\* the unique index's DuplicateKeyError
ConflictFailures == {Taken, Error500("DuplicateKeyError")}

\* C2: when register requests for one username interleave in any way, exactly
\* one creates the record, the other fails with Conflict, and the winner's
\* record is never overwritten by the loser.
C2_AtomicCreate ==
    [][/\ \A c \in Clients :
              (pc[c] = "reg_write" /\ pc'[c] = Idle)
              => /\ last'.client = c
                 /\ IF UsernamePresent(req[c].app, req[c].username)
                    THEN last'.resp \in ConflictFailures
                    ELSE last'.resp = Created
       /\ \A app \in Apps : UserRecords(app) \subseteq UserRecords(app)']_vars

\* the part of C2 the document backend keeps: under the unique index no
\* interleaving overwrites or duplicates a user record
C2_DocumentBackendKeeps ==
    [][deployed = {"B"} =>
          /\ UserRecords("B") \subseteq UserRecords("B")'
          /\ AtMostOneUserPerName']_vars

-----------------------------------------------------------------------------
(* Claims about the gallery *)

\* the record of photo_id was written by an upload under session identity
\* username
CreatedBy(photo_id, username) ==
    \E e \in created : e.photo_id = photo_id /\ e.by = username

\* the photo records of the deployed applications
StoredPhotos == UNION {PhotoRecords(app) : app \in deployed}

HasRecord(photo_id) == \E r \in StoredPhotos : r.photo_id = photo_id

\* photo_id has a record after the step
HasRecordNext(photo_id) == \E r \in StoredPhotos' : r.photo_id = photo_id

\* photo_id has a record and was uploaded under session identity username
Owns(username, photo_id) ==
    HasRecord(photo_id) /\ CreatedBy(photo_id, username)

Listing == last.op \in {"gallery", "search"} /\ last.resp.status = "page"

\* C5: for every photo p uploaded under session identity A and every user B
\* other than A, no gallery listing and no search result sent to B includes p.
C5_OwnerIsolation ==
    Listing =>
        \A i \in 1..Len(last.resp.photos) :
            CreatedBy(last.resp.photos[i].photo_id, session[last.client])

\* Bob is sent a listing that holds a photo while Alice has a photo stored
C5_Witness ==
    /\ Listing
    /\ session[last.client] = Bob
    /\ last.resp.photos # <<>>
    /\ \E r \in StoredPhotos : CreatedBy(r.photo_id, Alice)

\* the answer to a download or delete of an unknown photo
Refused(c, op, photo_id) ==
    [client |-> c, op |-> op, photo_id |-> photo_id, resp |-> NotFound,
     io |-> <<<<"photos", "read">>>>]

\* C6: a download or delete request for a photo owned by another user gets the
\* answer of the same request for an id that does not exist ("Photo not
\* found.", redirect to gallery) and changes no store; the handler goes on to
\* the blob or to a metadata change only for a photo of the requester.
C6_RefusedAsAbsent ==
    [][\A c \in Clients :
          (pc[c] = Idle /\ session[c] # NoUser) =>
              /\ pc'[c] \in {"dl_blob", "del_blob"}
                     => (/\ Owns(session[c], req'[c].photo_id)
                         /\ req'[c].item.photo_id = req'[c].photo_id
                         /\ io'[c] = <<<<"photos", "read">>>>
                         /\ UNCHANGED stores)
              /\ (/\ last'.client = c
                  /\ last'.op \in {"download", "delete"}
                  /\ ~Owns(session[c], last'.photo_id))
                     => (/\ last' = Refused(c, last'.op, last'.photo_id)
                         /\ UNCHANGED stores)]_vars

\* a delete of another user's stored photo has been refused
C6_Witness ==
    /\ last.op = "delete" /\ last.resp = NotFound
    /\ HasRecord(last.photo_id)
    /\ ~Owns(session[last.client], last.photo_id)

\* C7: a search whose query is empty, or empty once stripped, returns no photo
\* and reads no store, however many photos the owner has.
C7_EmptyQuery ==
    (last.op = "search" /\ last.resp.status = "page" /\ last.resp.query = <<>>)
        => (last.resp.photos = <<>> /\ last.io = <<>>)

\* an empty search answered to a user who has a photo
C7_Witness ==
    /\ last.op = "search" /\ last.resp.status = "page" /\ last.resp.query = <<>>
    /\ \E r \in StoredPhotos : r.username = session[last.client]

Deleted == Redirect("gallery", "Photo deleted.")

\* C8: a delete that answers "Photo deleted." leaves neither the record nor
\* the blob of that id; a delete of an id without a record (never stored, or
\* deleted before, as in the owner's second delete) raises nothing: it reads
\* the photo store, answers with the "Photo not found." redirect to the
\* gallery and changes no store.
C8_DeleteIdempotent ==
    [][/\ (last = NoLast /\ last'.op = "delete" /\ last'.resp = Deleted)
              => (/\ ~HasRecordNext(last'.photo_id)
                  /\ \A k \in s3' : k[3] # last'.photo_id)
       /\ \A c \in Clients :
              (/\ pc[c] = Idle /\ session[c] # NoUser
               /\ last'.client = c /\ last'.op = "delete"
               /\ ~HasRecord(last'.photo_id))
                  => (/\ last' = Refused(c, "delete", last'.photo_id)
                      /\ UNCHANGED stores)]_vars

\* the owner's second delete of a photo: answered, and nothing of it is left
C8_Witness ==
    /\ last.op = "delete" /\ last.resp = NotFound
    /\ CreatedBy(last.photo_id, session[last.client])
    /\ ~HasRecord(last.photo_id)
    /\ \A k \in s3 : k[3] # last.photo_id

\* in a handler's log of store calls, a record deletion comes after a blob
\* deletion
BlobDeleteFirst(log) ==
    \A i \in 1..Len(log) :
        (log[i][1] = "photos" /\ log[i][2] = "delete")
            => \E j \in 1..(i - 1) : log[j][1] = "s3" /\ log[j][2] = "delete"

\* C9: every delete request attempts the blob deletion before the metadata
\* deletion, and when the blob deletion fails the metadata deletion is not
\* performed: the request ends there and the photo record stays.
C9_BlobThenMetadata ==
    /\ [](/\ BlobDeleteFirst(last.io)
          /\ \A c \in Clients :
                 /\ BlobDeleteFirst(io[c])
                 /\ pc[c] = "del_meta" => req[c].item.s3_key \notin s3)
    /\ [][\A c \in Clients :
             (/\ pc[c] = "del_blob" /\ pc'[c] # "del_blob"
              /\ req[c].item.s3_key \in s3 /\ req[c].item.s3_key \in s3')
                 => (/\ pc'[c] = Idle
                     /\ last'.resp.status = "error"
                     /\ UNCHANGED <<photos_tbl, photos_col>>)]_vars

\* a delete whose blob deletion failed has ended; the record is still stored
C9_Witness ==
    /\ last.op = "delete" /\ last.resp = Error500("delete_object")
    /\ HasRecord(last.photo_id)

\* a record whose blob is missing is one some delete handler is about to remove
BlobPresentOrDeleting(r) ==
    \/ r.s3_key \in s3
    \/ \E c \in Clients : pc[c] = "del_meta" /\ req[c].item.photo_id = r.photo_id

\* C10: a photo record is written only when the blob write for its key has
\* succeeded; no listing or search shows a photo whose blob write has not
\* completed; a failed blob write creates no record; a blob write followed by
\* a failed record write leaves the blob and no record.
C10_WriteThenVisible ==
    /\ [](Listing =>
             \A i \in 1..Len(last.resp.photos) :
                 BlobPresentOrDeleting(last.resp.photos[i]))
    /\ [][/\ \A r \in StoredPhotos' \ StoredPhotos : r.s3_key \in s3
          /\ \A c \in Clients :
                 /\ (pc[c] = "up_file" /\ last'.client = c /\ last'.resp.status = "error")
                        => UNCHANGED stores
                 /\ (pc[c] = "up_meta" /\ last'.client = c /\ last'.resp.status = "error")
                        => (/\ req[c].s3_key \in s3'
                            /\ ~HasRecordNext(req[c].photo_id)
                            /\ UNCHANGED stores)
                 /\ (pc[c] = "up_file" /\ pc'[c] = "up_meta")
                        => (req'[c].s3_key \in s3' /\ ~HasRecordNext(req'[c].photo_id))]_vars

\* a record write has failed after its blob write: the blob is an orphan
C10_Witness ==
    /\ last.op = "upload" /\ last.resp = Error500("photo write")
    /\ \E k \in s3 : k[3] = last.photo_id
    /\ ~HasRecord(last.photo_id)

-----------------------------------------------------------------------------
(* Claims about the migration *)

Keys(records, attr) == {r[attr] : r \in records}

Docs(col) == {col[i] : i \in 1..Len(col)}

\* the documents of col whose key no record of source has
DestOnly(col, source, attr) == {d \in Docs(col) : d[attr] \notin Keys(source, attr)}

\* a second run over the source of the first has completed
SecondRunSameSource ==
    /\ mig.pc = "done"
    /\ mig.prev # None
    /\ mig.prev.src0 = mig.src0

\* the run reported no upsert, and each collection is as long as at its start
InsertsNothing ==
    /\ \A i \in 1..Len(mig.out) :
           mig.out[i].line = "upserted" => mig.out[i].upserted = 0
    /\ Len(users_col) = Len(mig.dst0[1])
    /\ Len(photos_col) = Len(mig.dst0[2])

\* the statement as written: after the second run over an unchanged source,
\* nothing was inserted, the destination counts are unchanged, and each equals
\* the source count
C3_CountEqualsSource ==
    SecondRunSameSource
    => (/\ InsertsNothing
        /\ Len(users_col) = Cardinality(mig.src0[1])
        /\ Len(photos_col) = Cardinality(mig.src0[2]))

\* C3: a second run over an unchanged source, with no other writer of the
\* destination in between, reports zero upserts in each collection and leaves
\* each collection's count unchanged; that count is the source count plus the
\* number of destination documents whose key the source does not have.
C3_IdempotentRerun ==
    SecondRunSameSource
    => (/\ InsertsNothing
        /\ Len(users_col) = Cardinality(mig.src0[1])
                            + Cardinality(DestOnly(users_col, mig.src0[1], "username"))
        /\ Len(photos_col) = Cardinality(mig.src0[2])
                             + Cardinality(DestOnly(photos_col, mig.src0[2], "photo_id")))

\* a second run over an unchanged source with users and photos has completed,
\* the destination holding a user the source does not have
C3_Witness ==
    /\ SecondRunSameSource
    /\ mig.src0[1] # {} /\ mig.src0[2] # {}
    /\ DestOnly(users_col, mig.src0[1], "username") # {}

\* every record of source has exactly one document in col under its key, with
\* the record's fields and nothing but the storage-assigned _id besides
CopiedByKey(source, col, attr) ==
    \A r \in source :
        /\ Cardinality({i \in 1..Len(col) : col[i][attr] = r[attr]}) = 1
        /\ \A i \in 1..Len(col) : col[i][attr] = r[attr] => Fields(col[i]) = r

\* a document that was equal to its source record when the run started is the
\* same document, at the same place, when it ends
KeepsMigrated(source, before, col) ==
    \A i \in 1..Len(before) :
        Fields(before[i]) \in source => (i <= Len(col) /\ col[i] = before[i])

\* C4: when a run has completed (the source not written during it), every
\* user and every photo of the source has exactly one destination document
\* under its key, field-equal to it apart from MongoDB's _id, whatever the
\* destination held under the key before; documents migrated before and
\* unchanged in the source are the same documents afterwards, and records
\* new in the source have been added.
C4_CopiedByNaturalKey ==
    mig.pc = "done"
    => (/\ CopiedByKey(mig.src0[1], users_col, "username")
        /\ CopiedByKey(mig.src0[2], photos_col, "photo_id")
        /\ KeepsMigrated(mig.src0[1], mig.dst0[1], users_col)
        /\ KeepsMigrated(mig.src0[2], mig.dst0[2], photos_col))

\* a re-run has completed after a user and a photo were added to the source,
\* the first run having found another record under a source user's key
C4_Witness ==
    /\ mig.pc = "done"
    /\ mig.prev # None
    /\ mig.src0[1] \ mig.prev.src0[1] # {}
    /\ mig.src0[2] \ mig.prev.src0[2] # {}
    /\ \E d \in Docs(mig.prev.dst0[1]) :
           /\ d.username \in Keys(mig.prev.src0[1], "username")
           /\ Fields(d) \notin mig.prev.src0[1]

-----------------------------------------------------------------------------
(* Claims about search and about the order of listings *)

\* text holds sub, letter case aside
ContainsIgnoringCase(text, sub) == Contains(lower(text), lower(sub))

\* the photos of username that hold q in filename, tags or description
SubstringMatches(username, q) ==
    {r \in StoredPhotos :
        /\ r.username = username
        /\ \/ ContainsIgnoringCase(r.filename, q)
           \/ ContainsIgnoringCase(r.tags, q)
           \/ ContainsIgnoringCase(r.description, q)}

\* the photos Part app's search selects among recs for (username, q_raw)
Selected(app, recs, username, q_raw) ==
    {r \in recs : r.username = username /\ Matches(app, r, Query(app, q_raw))}

Range(seq) == {seq[i] : i \in 1..Len(seq)}

\* C11: over the same photo records and the same (owner, query), Part A's
\* search and Part B's search select the same photos for every query that is
\* not empty, "." in the query included; and every search response holds
\* exactly the owner's photos that contain the query as a case-insensitive
\* substring of filename, tags or description.
C11_SearchEquivalence ==
    /\ \A q \in Queries, u \in {Alice, Bob} :
           strip(q) # <<>>
           => Selected("A", StoredPhotos, u, q) = Selected("B", StoredPhotos, u, q)
    /\ (last.op = "search" /\ last.resp.status = "page" /\ last.resp.query # <<>>)
           => Range(last.resp.photos)
                  = SubstringMatches(session[last.client], last.resp.query)

\* the place of photo_id in the order in which the records were written
Nth(photo_id) == (CHOOSE e \in created : e.photo_id = photo_id).nth

\* photos is ordered by uploaded_at descending, records with equal
\* uploaded_at in the order in which they were written
DescendingStable(photos) ==
    \A i, j \in 1..Len(photos) :
        i < j => \/ photos[i].uploaded_at > photos[j].uploaded_at
                 \/ /\ photos[i].uploaded_at = photos[j].uploaded_at
                    /\ Nth(photos[i].photo_id) < Nth(photos[j].photo_id)

\* C12: a gallery response holds exactly the photos of the session's user,
\* ordered by uploaded_at descending, photos of equal uploaded_at in the order
\* of their insertion.
C12_ListingOrder ==
    (last.op = "gallery" /\ last.resp.status = "page")
    => (/\ Range(last.resp.photos)
               = {r \in StoredPhotos : r.username = session[last.client]}
        /\ Len(last.resp.photos) = Cardinality(Range(last.resp.photos))
        /\ DescendingStable(last.resp.photos))

\* C12, without the order of ties: exactly the owner's photos, each once,
\* uploaded_at never increasing
C12_ListingDescending ==
    (last.op = "gallery" /\ last.resp.status = "page")
    => (/\ Range(last.resp.photos)
               = {r \in StoredPhotos : r.username = session[last.client]}
        /\ Len(last.resp.photos) = Cardinality(Range(last.resp.photos))
        /\ \A i, j \in 1..Len(last.resp.photos) :
               i < j => last.resp.photos[i].uploaded_at
                            >= last.resp.photos[j].uploaded_at)

\* C13: a search response holds its photos in the order of the listing:
\* uploaded_at descending.
C13_SearchOrder ==
    (last.op = "search" /\ last.resp.status = "page")
    => \A i, j \in 1..Len(last.resp.photos) :
           i < j => last.resp.photos[i].uploaded_at >= last.resp.photos[j].uploaded_at

-----------------------------------------------------------------------------
(* Claims about validation and ownership *)

\* empty, or whitespace only
Blank(text) == \A i \in 1..Len(text) : text[i] \in Whitespace

Required == Redirect("register", "Username and password are required.")

\* the file name has a "." and what follows its last "." is, in lower case,
\* an allowed extension
AllowedName(name) ==
    /\ \E i \in 1..Len(name) : name[i] = "."
    /\ lower(Extension(name)) \in ALLOWED_EXT

\* a register request reaches its first store call only with a username and a
\* password that are not blank; a register request answered at once finds the
\* stores as they were and has made no store call; the upload loop passes a
\* file with a disallowed extension by: no store changes, no store call is
\* made, the count stays
ValidatesFirst ==
    \A c \in Clients :
        /\ (pc[c] = Idle /\ pc'[c] = "reg_check")
               => (~Blank(req'[c].username) /\ ~Blank(req'[c].password))
        /\ (pc[c] = Idle /\ last = NoLast /\ last'.client = c /\ last'.op = "register")
               => (/\ last'.resp = Required
                   /\ last'.io = <<>>
                   /\ UNCHANGED stores)
        /\ (/\ pc[c] = "up_file"
            /\ req[c].files # <<>>
            /\ ~AllowedName(Head(req[c].files))
            /\ req'[c] # req[c])
               => (/\ UNCHANGED stores
                   /\ io'[c] = io[c]
                   /\ pc'[c] = "up_file"
                   /\ req'[c].files = Tail(req[c].files)
                   /\ req'[c].count = req[c].count)

\* no stored user has a blank username or the digest of a blank password
NoBlankUser ==
    \A app \in Apps : \A r \in UserRecords(app) :
        ~Blank(r.username) /\ \A p \in IntakePasswords : Blank(p) => r.password # _pw(p)

\* C14: a register request whose username or password is empty or whitespace
\* only is rejected without a read or write of the user store; in an upload a
\* file with a disallowed extension causes no blob write and no record write.
C14_ValidationBeforeIO == []NoBlankUser /\ [][ValidatesFirst]_vars

\* a register request has been rejected for a blank field while a photo is
\* stored whose upload passed a disallowed file by
C14_Witness ==
    /\ last.op = "register" /\ last.resp = Required
    /\ \E r \in StoredPhotos : TRUE

\* every stored photo record carries the session identity of the upload that
\* wrote it, in its username and in its s3_key
OwnerIsCreator ==
    \A r \in StoredPhotos :
        /\ CreatedBy(r.photo_id, r.username)
        /\ r.s3_key = S3Key(r.username, r.photo_id, r.filename)

\* a record that is still stored after a step is the record it was
KeepsIdentity ==
    \A r \in StoredPhotos : \A r2 \in StoredPhotos' :
        r2.photo_id = r.photo_id
        => (r2.username = r.username /\ r2.s3_key = r.s3_key /\ r2 = r)

\* C15: in every reachable state the username of every photo record is the
\* session identity of the upload request that created it, and no step of
\* either application changes the username, photo_id or s3_key of a stored
\* photo record.
C15_OwnershipInvariant == []OwnerIsCreator /\ [][KeepsIdentity]_vars

\* Alice and Bob each have a photo stored and a delete has gone through
C15_Witness ==
    /\ \E r \in StoredPhotos : r.username = Alice
    /\ \E r \in StoredPhotos : r.username = Bob
    /\ last.op = "delete" /\ last.resp = Deleted

-----------------------------------------------------------------------------
(* Claims about the scan, the accounting and the failures of the migration *)

Tables == {"users", "photos"}

\* the table and the collection of a run, as they were when it started
Source0(table) == IF table = "users" THEN mig.src0[1] ELSE mig.src0[2]
Dest0(table) == IF table = "users" THEN mig.dst0[1] ELSE mig.dst0[2]

\* while scan_all loops, items holds the pages fetched so far, in the table's
\* order and without gap or repetition, and last_key is the token of the last
\* page: the key of the last item evaluated
ScanInProgress ==
    mig.pc = "scan"
    => (/\ mig.items = SubSeq(mig.order, 1, Len(mig.items))
        /\ mig.last_key # None
               => (/\ Len(mig.items) >= 1
                   /\ mig.last_key.key
                          = mig.order[Len(mig.items)][KeyAttr(mig.table)])
        /\ mig.last_key = None => mig.items = <<>>)

\* when scan_all has returned, items holds every item of the table once
ScanReturned ==
    mig.pc = "write"
    => (/\ mig.items = mig.order
        /\ Range(mig.items) = Source0(mig.table)
        /\ Len(mig.items) = Cardinality(Source0(mig.table))
        /\ mig.last_key = None)

\* the scan goes on exactly while the page fetched carries a token
StopsWithoutToken ==
    (mig.pc = "scan" /\ mig' # mig /\ mig'.pc # "failed")
    => (mig'.last_key # None <=> (mig'.pc = "scan" /\ mig'.table = mig.table))

\* C16: for every table and every split of it into pages, pages without items
\* that carry a token included, scan_all passes each page's token as the start
\* key of the next fetch, stops at the first page without a token, and returns
\* every item of every page exactly once.
C16_ScanComplete == [](ScanInProgress /\ ScanReturned) /\ [][StopsWithoutToken]_vars

\* a scan of two items has returned after more than one page, one of them a
\* page without items
C16_Witness ==
    /\ mig.pc = "write"
    /\ Len(mig.items) = 2
    /\ mig.empty >= 1

\* the lines of kind `line` the run has printed for table
Lines(line, table) ==
    {mig.out[i] : i \in {j \in 1..Len(mig.out) :
                            mig.out[j].line = line /\ mig.out[j].table = table}}

\* C17: for each collection the reported inserted count is the number of
\* source keys the destination did not hold before the run, the reported
\* overwritten count is the number of source keys it did hold (identical
\* documents included), and the two sum to the number of records scanned.
C17_Accounting ==
    \A table \in Tables : \A l \in Lines("upserted", table) :
        LET attr == KeyAttr(table)
            held == Keys(Docs(Dest0(table)), attr)
        IN  /\ l.upserted = Cardinality(Keys(Source0(table), attr) \ held)
            /\ l.modified = Cardinality(Keys(Source0(table), attr) \cap held)
            /\ l.upserted + l.modified = Cardinality(Source0(table))

\* C17 as the code has it: the second count is of the documents that were
\* matched and changed by the replacement
C17_ModifiedOnly ==
    \A table \in Tables : \A l \in Lines("upserted", table) :
        LET attr == KeyAttr(table)
            held == Keys(Docs(Dest0(table)), attr)
        IN  /\ l.upserted = Cardinality(Keys(Source0(table), attr) \ held)
            /\ l.modified
                   = Cardinality({r \in Source0(table) :
                         /\ r[attr] \in held
                         /\ r \notin {Fields(d) : d \in Docs(Dest0(table))}})

Complete == \E i \in 1..Len(mig.out) : mig.out[i].line = "complete"

ScanFailed(table) ==
    \E l \in Lines("error", table) : l.what = "scan"

\* C18: when a page fetch fails during the scan of a collection, the run ends
\* there: no document of that collection (nor of a later one) is written, and
\* "Migration complete!" is never printed.
C18_NoPartialScan ==
    \A table \in Tables :
        ScanFailed(table)
        => (/\ mig.pc = "failed"
            /\ DestCol(table) = Dest0(table)
            /\ photos_col = Dest0("photos")
            /\ ~Complete)

\* a fetch of the photos scan failed after a first page, the users collection
\* having been written
C18_Witness ==
    /\ ScanFailed("photos")
    /\ mig.items # <<>>
    /\ users_col # Dest0("users")

\* the documents of col under key k
Under(col, attr, k) == {d \in Docs(col) : d[attr] = k}

\* C19: when a write of a collection's bulk write fails, the ops from the
\* failing one on are not applied, the run ends without "Migration
\* complete!", and what was applied before stays: the whole users collection
\* when the failure is in photos, and the ops of the batch before the failing
\* one.
C19_NoRollback ==
    \A table \in Tables : \A l \in Lines("error", table) :
        l.what = "write"
        => LET attr == KeyAttr(table)
               applied == SubSeq(mig.items, 1, Len(mig.items) - Len(l.left))
           IN  /\ mig.pc = "failed"
               /\ ~Complete
               /\ CopiedByKey(Range(applied), DestCol(table), attr)
               /\ \A d \in Range(l.left) :
                      Under(DestCol(table), attr, d[attr])
                          = Under(Dest0(table), attr, d[attr])
               /\ table = "photos" => CopiedByKey(Source0("users"), users_col, "username")

\* the second write of the photos batch failed: the users collection and the
\* first photo are written, the second photo is not
C19_Witness ==
    /\ \E l \in Lines("error", "photos") : l.what = "write" /\ Len(l.left) = 1
    /\ Len(mig.items) = 2
    /\ users_col # Dest0("users")
    /\ photos_col # Dest0("photos")

\* a document whose key the source table does not have is, after the step,
\* where it was and what it was; no document goes, none changes its key
KeepsOthers(col, colNext, source, attr) ==
    /\ Len(colNext) >= Len(col)
    /\ \A i \in 1..Len(col) :
           /\ colNext[i][attr] = col[i][attr]
           /\ col[i][attr] \notin Keys(source, attr) => colNext[i] = col[i]

MigFrame ==
    mig' # mig
    => (/\ UNCHANGED <<users_tbl, photos_tbl, s3>>
        /\ KeepsOthers(users_col, users_col', users_tbl, "username")
        /\ KeepsOthers(photos_col, photos_col', photos_tbl, "photo_id"))

\* C20: no step of a migration run writes to or deletes from the DynamoDB
\* tables or the bucket; in the destination a step changes only documents
\* whose key is in the source, and users and photos whose key the source does
\* not have stay as they are.
C20_MigrationFrame == [][MigFrame]_vars

\* a run has completed that wrote to a users collection holding a user the
\* source does not have, and to a photos collection likewise
C20_Witness ==
    /\ mig.pc = "done"
    /\ DestOnly(users_col, Source0("users"), "username") # {}
    /\ users_col # Dest0("users")
    /\ s3 # {}

-----------------------------------------------------------------------------
(* Claims about the stores at rest and about sessions *)

\* every photo record has its blob under its s3_key
EveryRecordHasBlob == \A r \in StoredPhotos : r.s3_key \in s3

\* no two photo records share an s3_key
OneRecordPerKey ==
    /\ \A r1, r2 \in photos_tbl : r1.s3_key = r2.s3_key => r1 = r2
    /\ \A i, j \in 1..Len(photos_col) :
           photos_col[i].s3_key = photos_col[j].s3_key => i = j

\* C21: in every state in which no request is in flight, reached by any
\* interleaving of upload, download and delete requests of the clients in
\* which no record deletion has failed, every photo record has its blob in the
\* bucket under its s3_key and no two photo records share an s3_key. (A blob
\* write, a record write or a blob deletion that fails does not break this
\* either.)
C21_ConsistentAtRest == AllIdle => (EveryRecordHasBlob /\ OneRecordPerKey)

\* at rest after a delete, with a photo still stored and a blob in the bucket
\* that no record names
C21_Witness ==
    /\ AllIdle
    /\ last.op = "delete" /\ last.resp = Deleted
    /\ StoredPhotos # {}
    /\ \E k \in s3 : \A r \in StoredPhotos : r.s3_key # k

\* the routes behind the session check
Gated == {"gallery", "upload", "search", "download", "delete"}

\* the handler positions of the gated routes
GatedPositions == {"up_file", "up_meta", "dl_blob", "del_blob", "del_meta"}

\* a step gives client c a session identity only as the credential check of
\* c's login, for the username of the form, when a user of that name is stored
\* and the digest of the form's password is the stored one; a step takes the
\* identity away only as c's logout, and a logout always does
SessionByLoginOnly ==
    \A c \in Clients :
        /\ (session'[c] # session[c] /\ session'[c] # NoUser)
               => (/\ pc[c] = "login_check"
                   /\ session'[c] = req[c].username
                   /\ last'.client = c /\ last'.op = "login"
                   /\ StoredUser(req[c].app, req[c].username) # None
                   /\ StoredUser(req[c].app, req[c].username).password
                          = _pw(req[c].password))
        /\ (session'[c] # session[c] /\ session'[c] = NoUser)
               => (last # last' /\ last'.client = c /\ last'.op = "logout")
        /\ (last # last' /\ last'.client = c /\ last'.op = "logout")
               => session'[c] = NoUser

\* a client without a session identity starts no handler but login's, and a
\* gated request of such a client is answered at once with the redirect to
\* login, no store call made and no store changed
GatedWithoutSession ==
    \A c \in Clients :
        (pc[c] = Idle /\ session[c] = NoUser)
        => (/\ pc'[c] \in {Idle, "login_check"}
            /\ (last # last' /\ last'.client = c /\ last'.op \in Gated)
                   => (/\ last'.resp = ToLogin
                       /\ last'.io = <<>>
                       /\ UNCHANGED stores))

\* a gated handler that has passed the session check runs under the identity
\* of its client's session
GatedUnderSession ==
    \A c \in Clients :
        pc[c] \in GatedPositions
        => (session[c] # NoUser /\ req[c].username = session[c])

\* C22: the session identity is set only by a login whose password digest
\* equals the stored digest of an existing user, and is cleared by logout;
\* every gallery, upload, search, download and delete request made without a
\* session identity redirects to login and touches neither the photo store
\* nor the bucket.
C22_SessionGating ==
    []GatedUnderSession /\ [][SessionByLoginOnly /\ GatedWithoutSession]_vars

\* a client that had logged in and uploaded, and logged out since, has its
\* delete request redirected to login
C22_Witness ==
    /\ last.op = "delete" /\ last.resp = ToLogin
    /\ session[last.client] = NoUser
    /\ StoredPhotos # {}

====
